---------------------------- MODULE Spec2Model ----------------------------
(***************************************************************************)
(* Payment request lifecycle of the payment API:                           *)
(*   PaymentProcessor (services/payment_processor.py), the ledger,         *)
(*   PaymentGateway   (services/payment_gateway.py),   the gateway client, *)
(*   EmailService     (services/email_service.py),     the receipt sender. *)
(*                                                                         *)
(* Strings that the code inspects character by character (card tokens,     *)
(* e-mail addresses) are sequences of one-character strings.  Python dicts *)
(* are functions whose DOMAIN is the set of keys present.  Amounts are     *)
(* integers; a number rounded to 2 decimals is kept in hundredths.         *)
(***************************************************************************)
EXTENDS Integers, Sequences, FiniteSets, TLC

VARIABLES
    transactions,   \* PaymentProcessor.transactions, the ledger (list of dicts)
    pc,             \* position of the request being served
    call,           \* the operation being served / served last, with its arguments
    net,            \* what the network answers to the 1st, 2nd.. outbound request
    result,         \* make_payment's local `result` (outcome of process_payment)
    sent,           \* outcome of the send_receipt call of this submission
    ret,            \* what the operation returned or raised to its caller
    pre,            \* the ledger as it was when the operation started
    gateway_calls,  \* calls of payment_gateway.process_payment by this operation
    post_calls,     \* calls of requests.post by this operation
    send_calls,     \* calls of email_service.send_receipt by this operation
    responses,      \* process_payment calls that returned, since the last clear
    http,           \* the HTTP response of app.py to the request served last
    mail,           \* the sender's configuration and SMTP server at the last send
    smtp_calls      \* SMTP connections attempted by this operation

vars == <<transactions, pc, call, net, result, sent, ret, pre,
          gateway_calls, post_calls, send_calls, responses, http, mail,
          smtp_calls>>

-----------------------------------------------------------------------------
(* Bounds and program constants *)

MaxTx == 2

MaxLedger == 3

\* records of the history ledger
MaxHistory == 15

MaxAmount == 1000000

MinTokenLen == 10

LastFour == 4

None == "None"

NoValue == [kind |-> "none"]

Pending == [kind |-> "pending"]

-----------------------------------------------------------------------------
(* Python helpers *)

\* dict.get(key, default)
Get(d, k, default) == IF k \in DOMAIN d THEN d[k] ELSE default

\* d[key] = value
SetItem(d, k, v) == (k :> v) @@ d

\* a call that returned v / a call that raised exception class e with message m
Returned(v) == [kind |-> "return", value |-> v]

Raised(e, m) == [kind |-> "raise", exc |-> e, msg |-> m]

Whitespace == {" "}

\* str.strip() leaves nothing
IsBlank(s) == \A i \in 1..Len(s) : s[i] \in Whitespace

\* "@" in s
Contains(s, c) == \E i \in 1..Len(s) : s[i] = c

-----------------------------------------------------------------------------
(* Inputs *)

Sp == " "

TokEmpty == << >>

TokBlank3 == <<Sp, Sp, Sp>>

TokBlank10 == <<Sp, Sp, Sp, Sp, Sp, Sp, Sp, Sp, Sp, Sp>>

Tok3 == <<"t", "o", "k">>

Tok9 == <<"t", "o", "k", "_", "r", "e", "t", "r", "y">>

Tok10 == <<"t", "o", "k", "_", "1", "2", "3", "4", "5", "6">>

Tok12 == <<"t", "o", "k", "_", "a", "b", "c", "d", "e", "f", "g", "h">>

Tokens == {TokEmpty, TokBlank3, TokBlank10, Tok3, Tok9, Tok10, Tok12}

MailEmpty == << >>

MailNoAt == <<"a", "x">>

MailAt == <<"@">>

Alice == <<"a", "@", "x">>

Bob == <<"b", "@", "x">>

Emails == {MailEmpty, MailNoAt, MailAt, Alice, Bob}

Amounts == {-1, 0, 1000, MaxAmount, MaxAmount + 1}

Req(a, t, e, d) == [amount |-> a, card_token |-> t, user_email |-> e, description |-> d]

\* Requests of the full model: every amount, every token and every e-mail
\* against otherwise good arguments, and every bad amount against every token.
Requests ==
    {Req(a, Tok10, Alice, "") : a \in Amounts}
    \cup {Req(1000, t, Alice, "") : t \in Tokens}
    \cup {Req(1000, Tok10, e, "order") : e \in Emails}
    \cup {Req(a, t, MailNoAt, "") : a \in {0, MaxAmount + 1}, t \in {TokEmpty, Tok10}}

\* Requests of the ledger model: three payments of two users.
LedgerRequests ==
    {Req(1000, Tok10, Alice, ""), Req(2000, Tok10, Bob, ""), Req(1500, Tok10, Alice, "")}

\* Response bodies of the remote gateway
RespSuccess == [status |-> "success", transaction_id |-> "T1", message |-> "approved"]

RespFailed == [status |-> "failed", transaction_id |-> "T2", message |-> "declined"]

RespNoStatus == [transaction_id |-> "T1"]

Bodies == {RespSuccess, RespFailed, RespNoStatus}

\* What one call of requests.post can do
Response(code, body) == [kind |-> "response", status_code |-> code, body |-> body]

Throws(e) == [kind |-> "exception", exc |-> e]

ErrorCodes == {401, 402, 404, 500}

Failures ==
    {Throws("Timeout"), Throws("ConnectionError"), Throws("RequestException"),
     Throws("OSError"), Throws("ValueError")}
    \cup {Response(c, RespFailed) : c \in ErrorCodes}

Outcomes == {Response(200, b) : b \in Bodies} \cup Failures

\* The network's answers to the successive outbound requests of a submission
NetScripts ==
    {<<o>> : o \in Outcomes}
    \cup {<<f, Response(200, RespSuccess)>> :
              f \in {Throws("ConnectionError"), Throws("OSError")}}

LedgerScripts == {<<Response(200, b)>> : b \in Bodies}

\* What the mail side can do to one send
\* The sender at one send: its credentials, its TLS switch, and the step of
\* the send that throws: nothing, the construction of the MIME message
\* (before the try block) or a step of the SMTP exchange
Mail(user, password, tls, fails) ==
    [smtp_user |-> user, smtp_password |-> password, use_tls |-> tls,
     fails |-> fails]

SmtpSteps == {"connect", "starttls", "login", "send_message"}

Unconfigured == Mail("", "", TRUE, "nothing")

MailOutcomes ==
    {Unconfigured, Mail("user", "secret", TRUE, "nothing"),
     Mail("user", "secret", TRUE, "login"), Mail("user", "secret", TRUE, "message")}

LedgerMailOutcomes == {Unconfigured}

\* Every sender: each credential set or unset, TLS on or off, each step
\* failing or none
Senders ==
    {Mail(u, p, tls, f) : u \in {"", "user"}, p \in {"", "secret"},
                          tls \in BOOLEAN,
                          f \in {"nothing", "message"} \cup SmtpSteps}

\* Payments of the mail model and the gateway's answers to them
MailRequests == {Req(1000, Tok10, Alice, ""), Req(2000, Tok12, Bob, "order")}

MailScripts == {<<Response(200, b)>> : b \in Bodies}

\* History requests of the mail model: no parameter, a page of one record,
\* one user's records
MailQueries ==
    {<< >>, ("page" :> 2) @@ ("per_page" :> 1), "user_email" :> Alice}

\* Transaction ids a caller asks for: two the gateway hands out and one it
\* does not
PathIds == {"T1", "T2", "T9"}

\* The history ledger: its k-th payment, of alternating users, and the
\* gateway's answer to it
HistoryRequest(k) == Req(k * 1000, Tok10, IF k % 2 = 1 THEN Alice ELSE Bob, "")

HistoryScript(k) ==
    <<Response(200, [status |-> "success",
                     transaction_id |-> "txn_" \o ToString(k),
                     message |-> "approved"])>>

\* request.args of GET /api/payments/history: each parameter given or not
Param(k, V) == {<< >>} \cup {k :> v : v \in V}

QueryEmails == {MailEmpty, Alice, Bob}

Pages == -1..4

PerPages == {-5, 0, 1, 5, 10}

HistoryQueries ==
    {e @@ p @@ pp : e \in Param("user_email", QueryEmails),
                    p \in Param("page", Pages),
                    pp \in Param("per_page", PerPages)}

\* JSON values a body can give for amount besides a number
JsonString == [type |-> "string", value |-> <<"a", "b", "c">>]

JsonNull == [type |-> "null"]

RequiredFields == {"amount", "card_token", "user_email"}

\* JSON bodies of POST /api/payments that do not reach make_payment: a
\* required field is absent, or amount is not a number
BadBodies ==
    {[f \in RequiredFields \ {g} |-> Tok10] : g \in RequiredFields}
    \cup {[amount |-> a, card_token |-> Tok10, user_email |-> Alice] :
              a \in {JsonString, JsonNull}}

\* JSON bodies of POST /api/cards/validate
CardRequests == {<< >>} \cup {"card_token" :> t : t \in Tokens}

\* a JSON body that is an array and not an object
JsonArray == [array |-> << >>]

\* What requests.get of validate_card can do
CardOutcomes ==
    {Response(200, b) : b \in {[valid |-> TRUE], [valid |-> FALSE],
                               [card |-> "unknown"], JsonArray}}
    \cup {Response(c, [valid |-> TRUE]) : c \in {404, 500}}
    \cup {Throws("Timeout"), Throws("ConnectionError"), Throws("RequestException"),
          Throws("OSError")}

\* datetime.now().isoformat()
Timestamps == {"2024-01-01T00:00:00"}


-----------------------------------------------------------------------------
(* PaymentGateway *)

\* A variant that takes status 500 for an ordinary HTTP error
payment_error_above_500(o) ==
    IF o.kind = "exception"
    THEN CASE o.exc = "Timeout" -> Raised("PaymentError", "gateway timeout")
           [] o.exc = "ConnectionError" -> Raised("PaymentError", "no connection to gateway")
           [] o.exc = "RequestException" -> Raised("PaymentError", "gateway error")
           [] OTHER -> Raised(o.exc, "")
    ELSE CASE o.status_code = 401 -> Raised("PaymentError", "invalid api key")
           [] o.status_code = 402 -> Raised("PaymentError", "insufficient funds")
           [] o.status_code > 500 -> Raised("PaymentError", "gateway server error")
           [] OTHER -> Raised("PaymentError", "http error")

\* The except chain of process_payment applied to what requests.post did.
\* Exceptions that are not requests.exceptions.RequestException are not caught.
payment_error(o) ==
    IF o.kind = "exception"
    THEN CASE o.exc = "Timeout" -> Raised("PaymentError", "gateway timeout")
           [] o.exc = "ConnectionError" -> Raised("PaymentError", "no connection to gateway")
           [] o.exc = "RequestException" -> Raised("PaymentError", "gateway error")
           [] OTHER -> Raised(o.exc, "")
    ELSE CASE o.status_code = 401 -> Raised("PaymentError", "invalid api key")
           [] o.status_code = 402 -> Raised("PaymentError", "insufficient funds")
           [] o.status_code >= 500 -> Raised("PaymentError", "gateway server error")
           [] OTHER -> Raised("PaymentError", "http error")

\* One requests.post, raise_for_status, response.json()
post_once(o) ==
    IF o.kind = "response" /\ o.status_code < 400
    THEN Returned(o.body)
    ELSE payment_error(o)

\* A variant that tries a second request after a failed connection
process_payment_retry(script) ==
    IF Len(script) >= 2 /\ script[1].kind = "exception"
       /\ script[1].exc \in {"ConnectionError", "OSError"}
    THEN [res |-> post_once(script[2]), attempts |-> 2]
    ELSE [res |-> post_once(script[1]), attempts |-> 1]

\* A variant that reports a failed request as a response instead of raising
process_payment_swallow(script) ==
    LET r == post_once(script[1])
    IN  [res |-> IF r.kind = "raise" THEN Returned([status |-> "error"]) ELSE r,
         attempts |-> 1]

\* process_payment against the network's answers `script`: its result and the
\* number of outbound requests it made
process_payment(script) ==
    [res |-> post_once(script[1]), attempts |-> 1]

\* The classes of requests.exceptions, all of them RequestException
RequestsExceptions == {"Timeout", "ConnectionError", "HTTPError", "RequestException"}

\* isinstance(body, dict): only an object has .get
is_object(body) == "array" \notin DOMAIN body

\* validate_card on what requests.get did: raise_for_status and every
\* requests exception give False, an object gives its 'valid' (False when
\* absent); anything else is not caught
validate_card(o) ==
    IF o.kind = "exception"
    THEN IF o.exc \in RequestsExceptions
         THEN Returned(FALSE)
         ELSE Raised(o.exc, "")
    ELSE IF o.status_code >= 400
         THEN Returned(FALSE)
         ELSE IF is_object(o.body)
              THEN Returned(Get(o.body, "valid", FALSE))
              ELSE Raised("AttributeError", "'list' object has no attribute 'get'")

-----------------------------------------------------------------------------
(* EmailService *)

\* the step of the SMTP exchange that throws, if any: starttls is called
\* only when use_tls is set
smtp_failure(m) ==
    m.fails \in SmtpSteps /\ (m.fails = "starttls" => m.use_tls)

\* A variant that skips the SMTP exchange only when both credentials are unset
send_email_both_unset(m) ==
    IF m.smtp_user = "" /\ m.smtp_password = ""
    THEN [res |-> Returned(TRUE), smtp |-> 0]
    ELSE IF m.fails = "message"
         THEN [res |-> Raised("Exception", "send failed"), smtp |-> 0]
         ELSE [res |-> Returned(~smtp_failure(m)), smtp |-> 1]

\* A variant whose connection is opened outside the try block
send_email_connect_escapes(m) ==
    IF m.smtp_user = "" \/ m.smtp_password = ""
    THEN [res |-> Returned(TRUE), smtp |-> 0]
    ELSE IF m.fails \in {"message", "connect"}
         THEN [res |-> Raised("Exception", "send failed"), smtp |-> 0]
         ELSE [res |-> Returned(~smtp_failure(m)), smtp |-> 1]

\* _send_email: True without an SMTP connection when a credential is unset;
\* otherwise the message is built (outside the try block) and one SMTP
\* connection is attempted: True when every step passed, False when one threw.
\* res is what it returns or raises, smtp the connections it attempted.
send_email(m) ==
    IF m.smtp_user = "" \/ m.smtp_password = ""
    THEN [res |-> Returned(TRUE), smtp |-> 0]
    ELSE IF m.fails = "message"
         THEN [res |-> Raised("Exception", "send failed"), smtp |-> 0]
         ELSE [res |-> Returned(~smtp_failure(m)), smtp |-> 1]

\* send_notification returns what _send_email returns and raises what it raises
send_notification(m) == send_email(m).res

\* send_receipt wraps whatever _send_email raises into EmailError
send_receipt(m) ==
    LET r == send_email(m).res
    IN  IF r.kind = "raise"
        THEN Raised("EmailError", "could not send email: send failed")
        ELSE r

-----------------------------------------------------------------------------
(* PaymentProcessor *)

\* Variants of the validation with one rule changed
validate_amount_off_by_one(amount, card_token, user_email) ==
    IF amount < 0 THEN Raised("ValueError", "amount must be positive")
    ELSE IF amount >= MaxAmount THEN Raised("ValueError", "amount exceeds maximum")
    ELSE IF Len(card_token) = 0 \/ IsBlank(card_token)
         THEN Raised("ValueError", "card token is empty")
    ELSE IF Len(card_token) < MinTokenLen
         THEN Raised("ValueError", "bad card token format")
    ELSE IF Len(user_email) = 0 \/ ~Contains(user_email, "@")
         THEN Raised("ValueError", "bad email format")
    ELSE Returned(None)

validate_lenient(amount, card_token, user_email) ==
    IF amount <= 0 THEN Raised("ValueError", "amount must be positive")
    ELSE IF amount > MaxAmount THEN Raised("ValueError", "amount exceeds maximum")
    ELSE IF Len(card_token) = 0
         THEN Raised("ValueError", "card token is empty")
    ELSE IF Len(card_token) < MinTokenLen - 1
         THEN Raised("ValueError", "bad card token format")
    ELSE IF Len(user_email) = 0
         THEN Raised("ValueError", "bad email format")
    ELSE Returned(None)

\* A variant without the rule on the length of the token
validate_no_length(amount, card_token, user_email) ==
    IF amount <= 0 THEN Raised("ValueError", "amount must be positive")
    ELSE IF amount > MaxAmount THEN Raised("ValueError", "amount exceeds maximum")
    ELSE IF Len(card_token) = 0 \/ IsBlank(card_token)
         THEN Raised("ValueError", "card token is empty")
    ELSE IF Len(user_email) = 0 \/ ~Contains(user_email, "@")
         THEN Raised("ValueError", "bad email format")
    ELSE Returned(None)

\* _validate_payment_data: the first violated rule raises ValueError
validate_payment_data(amount, card_token, user_email) ==
    IF amount <= 0 THEN Raised("ValueError", "amount must be positive")
    ELSE IF amount > MaxAmount THEN Raised("ValueError", "amount exceeds maximum")
    ELSE IF Len(card_token) = 0 \/ IsBlank(card_token)
         THEN Raised("ValueError", "card token is empty")
    ELSE IF Len(card_token) < MinTokenLen
         THEN Raised("ValueError", "bad card token format")
    ELSE IF Len(user_email) = 0 \/ ~Contains(user_email, "@")
         THEN Raised("ValueError", "bad email format")
    ELSE Returned(None)

\* card_token[-4:] if len(card_token) >= 4 else "****"
card_last_four(card_token) ==
    IF Len(card_token) >= LastFour
    THEN SubSeq(card_token, Len(card_token) - LastFour + 1, Len(card_token))
    ELSE <<"*", "*", "*", "*">>

\* A variant that swaps the gateway's id for the status and drops the description
new_transaction_mixed(res, args, ts) ==
    [id |-> Get(res, "status", None),
     amount |-> args.amount,
     status |-> Get(res, "status", None),
     user_email |-> args.user_email,
     description |-> "",
     timestamp |-> ts,
     card_last_four |-> card_last_four(args.card_token)]

\* The transaction dict make_payment builds from the gateway's result
new_transaction(res, args, ts) ==
    [id |-> Get(res, "transaction_id", None),
     amount |-> args.amount,
     status |-> Get(res, "status", None),
     user_email |-> args.user_email,
     description |-> args.description,
     timestamp |-> ts,
     card_last_four |-> card_last_four(args.card_token)]

\* A variant that sends a receipt for every recorded payment
wants_receipt_always(res) == TRUE

\* A variant that sends a receipt unless the payment is reported failed
wants_receipt_unless_failed(res) == Get(res, "status", None) /= "failed"

\* if result.get("status") == "success"
wants_receipt(res) == Get(res, "status", None) = "success"

\* A variant that also stamps the record with the time of the receipt
record_receipt_restamped(t, s) ==
    IF s.kind = "raise" /\ s.exc = "EmailError"
    THEN SetItem(SetItem(t, "receipt_sent", FALSE), "receipt_error", s.msg)
    ELSE SetItem(SetItem(t, "receipt_sent", TRUE), "timestamp", "receipted")

\* A variant that writes only the error of a failed receipt
record_receipt_error_only(t, s) ==
    IF s.kind = "raise" /\ s.exc = "EmailError"
    THEN SetItem(t, "receipt_error", s.msg)
    ELSE SetItem(t, "receipt_sent", TRUE)

\* A variant that marks the receipt as sent whatever send_receipt did
record_receipt_always_sent(t, s) == SetItem(t, "receipt_sent", TRUE)

\* The try/except around send_receipt: what it writes on the transaction
record_receipt(t, s) ==
    IF s.kind = "raise" /\ s.exc = "EmailError"
    THEN SetItem(SetItem(t, "receipt_sent", FALSE), "receipt_error", s.msg)
    ELSE SetItem(t, "receipt_sent", TRUE)

\* The dict make_payment returns
payment_summary(res, amount, t) ==
    [success |-> Get(res, "status", None) = "success",
     transaction_id |-> Get(res, "transaction_id", None),
     message |-> Get(res, "message", ""),
     amount |-> amount,
     timestamp |-> t.timestamp]

-----------------------------------------------------------------------------
(* Queries; a list comprehension [t for t in txs if p(t)] is SelectSeq *)

\* sum(t.get("amount", 0) for t in txs)
RECURSIVE sum_amounts(_)
sum_amounts(txs) ==
    IF txs = << >> THEN 0
    ELSE Get(Head(txs), "amount", 0) + sum_amounts(Tail(txs))

\* round(num / den, 2) in hundredths; Python rounds a tie to the even digit
round2(num, den) ==
    LET q == (100 * num) \div den
        r == (100 * num) % den
    IN  IF 2 * r < den THEN q
        ELSE IF 2 * r > den THEN q + 1
        ELSE IF q % 2 = 0 THEN q ELSE q + 1

\* A variant that counts as failed only the records whose status is "failed"
\* and truncates the rate
get_transaction_stats_wrong(txs) ==
    IF txs = << >>
    THEN [total |-> 0, successful |-> 0, failed |-> 0, total_amount |-> 0,
          success_rate |-> 0, average_amount |-> 0]
    ELSE LET successful == SelectSeq(txs, LAMBDA t : Get(t, "status", None) = "success")
             failed == SelectSeq(txs, LAMBDA t : Get(t, "status", None) = "failed")
             total_amount == sum_amounts(txs)
         IN  [total |-> Len(txs),
              successful |-> Len(successful),
              failed |-> Len(failed),
              total_amount |-> total_amount,
              average_amount |-> round2(total_amount, Len(txs)),
              success_rate |-> (100 * 100 * Len(successful)) \div Len(txs)]

\* get_transaction_stats; average_amount and success_rate in hundredths
get_transaction_stats(txs) ==
    IF txs = << >>
    THEN [total |-> 0, successful |-> 0, failed |-> 0, total_amount |-> 0,
          success_rate |-> 0, average_amount |-> 0]
    ELSE LET successful == SelectSeq(txs, LAMBDA t : Get(t, "status", None) = "success")
             failed == SelectSeq(txs, LAMBDA t : Get(t, "status", None) /= "success")
             total_amount == sum_amounts(txs)
         IN  [total |-> Len(txs),
              successful |-> Len(successful),
              failed |-> Len(failed),
              total_amount |-> total_amount,
              average_amount |-> round2(total_amount, Len(txs)),
              success_rate |-> round2(100 * Len(successful), Len(txs))]

\* A variant that answers the newest record first
RECURSIVE get_user_transactions_newest_first(_, _)
get_user_transactions_newest_first(txs, user_email) ==
    IF txs = << >> THEN << >>
    ELSE get_user_transactions_newest_first(Tail(txs), user_email)
         \o (IF Get(Head(txs), "user_email", None) = user_email
             THEN <<Head(txs)>> ELSE << >>)

\* get_user_transactions
get_user_transactions(txs, user_email) ==
    SelectSeq(txs, LAMBDA t : Get(t, "user_email", None) = user_email)

\* A variant that answers the newest record with the id
RECURSIVE get_transaction_by_id_newest(_, _)
get_transaction_by_id_newest(txs, transaction_id) ==
    IF txs = << >> THEN NoValue
    ELSE IF Get(txs[Len(txs)], "id", None) = transaction_id THEN txs[Len(txs)]
    ELSE get_transaction_by_id_newest(SubSeq(txs, 1, Len(txs) - 1), transaction_id)

\* get_transaction_by_id: the first record with the id, or None (NoValue)
RECURSIVE get_transaction_by_id(_, _)
get_transaction_by_id(txs, transaction_id) ==
    IF txs = << >> THEN NoValue
    ELSE IF Get(Head(txs), "id", None) = transaction_id THEN Head(txs)
    ELSE get_transaction_by_id(Tail(txs), transaction_id)

\* A variant that keeps the newest record
clear_transactions_keep_newest(txs) ==
    IF txs = << >> THEN << >> ELSE <<txs[Len(txs)]>>

\* clear_transactions: self.transactions.clear()
clear_transactions(txs) == << >>

-----------------------------------------------------------------------------
(* HTTP endpoints of app.py *)

Http(code, body) == [status |-> code, body |-> body]

\* POST /api/payments after the required fields were found: the response to
\* what make_payment returned or raised
create_payment(r) ==
    IF r.kind = "return"
    THEN IF r.value.success
         THEN Http(201, [success |-> TRUE, data |-> r.value])
         ELSE Http(400, [success |-> FALSE, error |-> Get(r.value, "message", "failed")])
    ELSE CASE r.exc = "ValueError" -> Http(400, [error |-> r.msg])
           [] r.exc = "PaymentError" -> Http(502, [error |-> r.msg])
           [] OTHER -> Http(500, [error |-> "internal server error"])

\* float(v) of a JSON value that is not a number: a string that is not a
\* numeral raises ValueError, null raises TypeError
to_float(v) ==
    IF v.type = "string"
    THEN Raised("ValueError", "could not convert string to float")
    ELSE Raised("TypeError", "float() argument must be a string or a real number")

\* POST /api/payments on a body that does not reach make_payment
create_payment_refused(data) ==
    IF \E f \in RequiredFields : f \notin DOMAIN data
    THEN Http(400, [error |-> "required field missing"])
    ELSE create_payment(to_float(data.amount))

\* GET /api/payments/stats
get_payment_stats(txs) ==
    Http(200, [success |-> TRUE, data |-> get_transaction_stats(txs)])

\* GET /api/payments/<transaction_id> on what get_transaction_by_id returned
get_payment(transaction) ==
    IF transaction = NoValue
    THEN Http(404, [error |-> "transaction not found"])
    ELSE Http(200, [success |-> TRUE, data |-> transaction])

\* Python's a // b for b /= 0: rounds towards minus infinity
floordiv(a, b) == IF b > 0 THEN a \div b ELSE (0 - a) \div (0 - b)

\* The position a slice bound i selects in a list of n elements: a negative
\* bound counts from the end, and both ends are clamped to the list
slice_index(i, n) ==
    IF i < 0
    THEN IF i + n < 0 THEN 0 ELSE i + n
    ELSE IF i > n THEN n ELSE i

\* s[start:end]
slice(s, start, end) ==
    LET lo == slice_index(start, Len(s))
        hi == slice_index(end, Len(s))
    IN  IF lo >= hi THEN << >> ELSE SubSeq(s, lo + 1, hi)

\* A variant whose first page starts one page late
get_payment_history_late(txs, args) ==
    LET listed == IF "user_email" \in DOMAIN args /\ args.user_email /= << >>
                  THEN get_user_transactions(txs, args.user_email)
                  ELSE txs
        page == Get(args, "page", 1)
        per_page == Get(args, "per_page", 10)
        start_idx == page * per_page
        end_idx == start_idx + per_page
    IN  IF per_page = 0
        THEN Http(500, [error |-> "ZeroDivisionError"])
        ELSE Http(200, [success |-> TRUE,
                        data |-> [transactions |-> slice(listed, start_idx, end_idx),
                                  pagination |->
                                      [page |-> page,
                                       per_page |-> per_page,
                                       total |-> Len(listed),
                                       total_pages |->
                                           floordiv(Len(listed) + per_page - 1,
                                                    per_page)]]])

\* GET /api/payments/history with the query parameters args (page and
\* per_page after int()); the division by per_page = 0 is not caught and
\* ends the request with status 500
get_payment_history(txs, args) ==
    LET listed == IF "user_email" \in DOMAIN args /\ args.user_email /= << >>
                  THEN get_user_transactions(txs, args.user_email)
                  ELSE txs
        page == Get(args, "page", 1)
        per_page == Get(args, "per_page", 10)
        start_idx == (page - 1) * per_page
        end_idx == start_idx + per_page
    IN  IF per_page = 0
        THEN Http(500, [error |-> "ZeroDivisionError"])
        ELSE Http(200, [success |-> TRUE,
                        data |-> [transactions |-> slice(listed, start_idx, end_idx),
                                  pagination |->
                                      [page |-> page,
                                       per_page |-> per_page,
                                       total |-> Len(listed),
                                       total_pages |->
                                           floordiv(Len(listed) + per_page - 1,
                                                    per_page)]]])

\* POST /api/cards/validate with the JSON body data, the gateway's request
\* answered by o
api_validate_card(data, o) ==
    IF "card_token" \notin DOMAIN data
    THEN Http(400, [error |-> "card token required"])
    ELSE LET is_valid == validate_card(o)
         IN  IF is_valid.kind = "raise"
             THEN Http(500, [error |-> is_valid.msg])
             ELSE Http(200, [success |-> TRUE,
                             data |-> [valid |-> is_valid.value,
                                       card_token |->
                                           IF is_valid.value
                                           THEN slice(data.card_token, 0 - LastFour,
                                                      Len(data.card_token))
                                           ELSE <<"*", "*", "*", "*">>]])

-----------------------------------------------------------------------------
(* The state machine *)

Init ==
    /\ transactions = << >>
    /\ pc = "idle"
    /\ call = [op |-> "init"]
    /\ net = << >>
    /\ result = NoValue
    /\ sent = NoValue
    /\ ret = NoValue
    /\ pre = << >>
    /\ gateway_calls = 0
    /\ post_calls = 0
    /\ send_calls = 0
    /\ responses = 0
    /\ http = NoValue
    /\ mail = NoValue
    /\ smtp_calls = 0

\* POST /api/payments with its required fields, and make_payment up to its call of process_payment: validation, then the
\* outbound request is in flight against a network that will answer `script`
MakePayment(args, scripts, cap) ==
    /\ pc = "idle"
    /\ Len(transactions) < cap
    /\ call' = [op |-> "make_payment", args |-> args]
    /\ pre' = transactions
    /\ result' = NoValue
    /\ sent' = NoValue
    /\ post_calls' = 0
    /\ send_calls' = 0
    /\ mail' = NoValue
    /\ smtp_calls' = 0
    /\ LET v == validate_payment_data(args.amount, args.card_token, args.user_email)
       IN  IF v.kind = "raise"
           THEN /\ ret' = v
                /\ http' = create_payment(v)
                /\ pc' = "idle"
                /\ net' = << >>
                /\ gateway_calls' = 0
           ELSE /\ ret' = Pending
                /\ http' = Pending
                /\ pc' = "charging"
                /\ \E script \in scripts : net' = script
                /\ gateway_calls' = 1
    /\ UNCHANGED <<transactions, responses>>

\* process_payment completes: its error propagates, or its result is recorded
\* and, for a successful payment, send_receipt is called
ProcessPaymentDone ==
    /\ pc = "charging"
    /\ LET p == process_payment(net)
       IN  /\ post_calls' = p.attempts
           /\ result' = p.res
           /\ IF p.res.kind = "raise"
              THEN /\ ret' = p.res
                   /\ http' = create_payment(p.res)
                   /\ pc' = "idle"
                   /\ UNCHANGED <<transactions, responses, send_calls>>
              ELSE \E ts \in Timestamps :
                   LET t == new_transaction(p.res.value, call.args, ts)
                   IN  /\ responses' = responses + 1
                       /\ IF wants_receipt(p.res.value)
                          THEN /\ transactions' = Append(transactions, t)
                               /\ send_calls' = 1
                               /\ ret' = Pending
                               /\ http' = Pending
                               /\ pc' = "sending"
                          ELSE /\ transactions' =
                                      Append(transactions, SetItem(t, "receipt_sent", FALSE))
                               /\ ret' = Returned(payment_summary(p.res.value,
                                                                  call.args.amount, t))
                               /\ http' = create_payment(
                                      Returned(payment_summary(p.res.value,
                                                               call.args.amount, t)))
                               /\ pc' = "idle"
                               /\ UNCHANGED send_calls
    /\ UNCHANGED <<call, net, sent, pre, gateway_calls, mail, smtp_calls>>

\* send_receipt completes: the receipt fields are written on the transaction
\* appended by this submission and make_payment returns
SendReceiptDone(m) ==
    /\ pc = "sending"
    /\ LET s == send_receipt(m)
           cur == Len(transactions)
       IN  /\ sent' = s
           /\ transactions' = [transactions EXCEPT ![cur] = record_receipt(@, s)]
           /\ ret' = Returned(payment_summary(result.value, call.args.amount,
                                              transactions[cur]))
           /\ http' = create_payment(
                  Returned(payment_summary(result.value, call.args.amount,
                                           transactions[cur])))
    /\ mail' = m
    /\ smtp_calls' = send_email(m).smtp
    /\ pc' = "idle"
    /\ UNCHANGED <<call, net, result, pre, gateway_calls, post_calls, send_calls,
                   responses>>

\* What every operation other than make_payment leaves behind
Quiet ==
    /\ net' = << >>
    /\ result' = NoValue
    /\ sent' = NoValue
    /\ gateway_calls' = 0
    /\ post_calls' = 0
    /\ send_calls' = 0
    /\ mail' = NoValue
    /\ smtp_calls' = 0
    /\ pc' = "idle"

GetTransactionStats ==
    /\ pc = "idle"
    /\ call' = [op |-> "get_transaction_stats"]
    /\ pre' = transactions
    /\ ret' = Returned(get_transaction_stats(transactions))
    /\ http' = NoValue
    /\ Quiet
    /\ UNCHANGED <<transactions, responses>>

GetUserTransactions(user_email) ==
    /\ pc = "idle"
    /\ call' = [op |-> "get_user_transactions", args |-> user_email]
    /\ pre' = transactions
    /\ ret' = Returned(get_user_transactions(transactions, user_email))
    /\ http' = NoValue
    /\ Quiet
    /\ UNCHANGED <<transactions, responses>>

\* get_transaction_by_id called directly (None is a possible argument)
GetTransactionById(transaction_id) ==
    /\ pc = "idle"
    /\ call' = [op |-> "get_transaction_by_id", args |-> transaction_id]
    /\ pre' = transactions
    /\ ret' = Returned(get_transaction_by_id(transactions, transaction_id))
    /\ http' = NoValue
    /\ Quiet
    /\ UNCHANGED <<transactions, responses>>

\* GET /api/payments/<transaction_id>
GetPayment(transaction_id) ==
    /\ pc = "idle"
    /\ call' = [op |-> "get_payment", args |-> transaction_id]
    /\ pre' = transactions
    /\ LET transaction == get_transaction_by_id(transactions, transaction_id)
       IN  /\ ret' = Returned(transaction)
           /\ http' = get_payment(transaction)
    /\ Quiet
    /\ UNCHANGED <<transactions, responses>>

\* POST /api/payments answered before make_payment is called
CreatePaymentRefused(data) ==
    /\ pc = "idle"
    /\ call' = [op |-> "create_payment", args |-> data]
    /\ pre' = transactions
    /\ ret' = NoValue
    /\ http' = create_payment_refused(data)
    /\ Quiet
    /\ UNCHANGED <<transactions, responses>>

ClearTransactions ==
    /\ pc = "idle"
    /\ call' = [op |-> "clear_transactions"]
    /\ pre' = transactions
    /\ transactions' = clear_transactions(transactions)
    /\ responses' = 0
    /\ ret' = Returned(None)
    /\ http' = NoValue
    /\ Quiet

Next ==
    \/ \E args \in Requests : MakePayment(args, NetScripts, MaxTx)
    \/ ProcessPaymentDone
    \/ \E m \in MailOutcomes : SendReceiptDone(m)
    \/ GetTransactionStats
    \/ \E e \in Emails : GetUserTransactions(e)
    \/ \E data \in BadBodies : CreatePaymentRefused(data)
    \/ ClearTransactions

Spec == Init /\ [][Next]_vars

\* The same program against three payments of two users whose receipts go
\* to an unconfigured sender: longer ledgers
NextLedger ==
    \/ \E args \in LedgerRequests : MakePayment(args, LedgerScripts, MaxLedger)
    \/ ProcessPaymentDone
    \/ \E m \in LedgerMailOutcomes : SendReceiptDone(m)
    \/ GetTransactionStats
    \/ \E e \in Emails : GetUserTransactions(e)
    \/ \E id \in PathIds \cup {None} : GetTransactionById(id)
    \/ \E id \in PathIds : GetPayment(id)
    \/ ClearTransactions

SpecLedger == Init /\ [][NextLedger]_vars

\* GET /api/payments/history
GetPaymentHistory(args) ==
    /\ pc = "idle"
    /\ call' = [op |-> "get_payment_history", args |-> args]
    /\ pre' = transactions
    /\ http' = get_payment_history(transactions, args)
    /\ ret' = NoValue
    /\ Quiet
    /\ UNCHANGED <<transactions, responses>>

\* POST /api/cards/validate: one requests.get when the body has a card_token
ValidateCard(data, o) ==
    /\ pc = "idle"
    /\ call' = [op |-> "validate_card", args |-> data]
    /\ pre' = transactions
    /\ IF "card_token" \in DOMAIN data
       THEN /\ net' = <<o>>
            /\ result' = validate_card(o)
       ELSE /\ net' = << >>
            /\ result' = NoValue
    /\ http' = api_validate_card(data, o)
    /\ ret' = NoValue
    /\ sent' = NoValue
    /\ gateway_calls' = 0
    /\ post_calls' = 0
    /\ send_calls' = 0
    /\ mail' = NoValue
    /\ smtp_calls' = 0
    /\ pc' = "idle"
    /\ UNCHANGED <<transactions, responses>>

\* The same program serving its read endpoints over a ledger that grows by
\* one successful payment at a time
NextApi ==
    \/ MakePayment(HistoryRequest(Len(transactions) + 1),
                   {HistoryScript(Len(transactions) + 1)}, MaxHistory)
    \/ ProcessPaymentDone
    \/ SendReceiptDone(Unconfigured)
    \/ \E args \in HistoryQueries : GetPaymentHistory(args)
    \/ \E data \in CardRequests, o \in CardOutcomes : ValidateCard(data, o)

SpecApi == Init /\ [][NextApi]_vars

\* A variant of the stats endpoint that consumes the oldest record
GetPaymentStatsDraining ==
    /\ pc = "idle"
    /\ call' = [op |-> "get_payment_stats"]
    /\ pre' = transactions
    /\ ret' = Returned(get_transaction_stats(transactions))
    /\ http' = get_payment_stats(transactions)
    /\ Quiet
    /\ transactions' = IF transactions = << >> THEN << >> ELSE Tail(transactions)
    /\ UNCHANGED responses

\* GET /api/payments/stats
GetPaymentStats ==
    /\ pc = "idle"
    /\ call' = [op |-> "get_payment_stats"]
    /\ pre' = transactions
    /\ ret' = Returned(get_transaction_stats(transactions))
    /\ http' = get_payment_stats(transactions)
    /\ Quiet
    /\ UNCHANGED <<transactions, responses>>

\* email_service.send_notification called directly
SendNotification(m) ==
    /\ pc = "idle"
    /\ call' = [op |-> "send_notification"]
    /\ pre' = transactions
    /\ ret' = send_notification(m)
    /\ mail' = m
    /\ smtp_calls' = send_email(m).smtp
    /\ http' = NoValue
    /\ net' = << >>
    /\ result' = NoValue
    /\ sent' = NoValue
    /\ gateway_calls' = 0
    /\ post_calls' = 0
    /\ send_calls' = 0
    /\ pc' = "idle"
    /\ UNCHANGED <<transactions, responses>>

\* The same program against every sender: two payments that succeed, are
\* declined or come back without a status, their receipts, notifications,
\* and every query
NextMail ==
    \/ \E args \in MailRequests : MakePayment(args, MailScripts, MaxTx)
    \/ ProcessPaymentDone
    \/ \E m \in Senders : SendReceiptDone(m)
    \/ \E m \in Senders : SendNotification(m)
    \/ GetTransactionStats
    \/ \E e \in {Alice, Bob} : GetUserTransactions(e)
    \/ \E id \in PathIds : GetTransactionById(id)
    \/ \E id \in PathIds : GetPayment(id)
    \/ GetPaymentStats
    \/ \E args \in MailQueries : GetPaymentHistory(args)
    \/ ClearTransactions

SpecMail == Init /\ [][NextMail]_vars

-----------------------------------------------------------------------------
(* Properties of a submission *)

IsSubmit == call.op = "make_payment"

\* the submission was refused by the validation: ValueError before any
\* gateway call
Rejected ==
    /\ pc = "idle"
    /\ ret.kind = "raise"
    /\ ret.exc = "ValueError"
    /\ gateway_calls = 0

AmountRules == {"amount must be positive", "amount exceeds maximum"}

\* nothing reached the gateway, the mail side or the ledger
NoEffect ==
    /\ gateway_calls = 0
    /\ post_calls = 0
    /\ send_calls = 0
    /\ transactions = pre

\* the ledger is what it was plus one record at the end
OneAppended ==
    /\ Len(transactions) = Len(pre) + 1
    /\ SubSeq(transactions, 1, Len(pre)) = pre

Last == transactions[Len(transactions)]

\* the gateway answered this submission with a response body
Answered == IsSubmit /\ result.kind = "return"

\* C1: a submission whose amount is <= 0 or > 1,000,000 fails with a
\* validation error whatever the other arguments are, without any gateway
\* call, any receipt attempt or any change of the ledger; an amount in
\* (0, 1,000,000], 1,000,000 included, is not refused by an amount rule.
C1_AmountValidation ==
    IsSubmit =>
        IF call.args.amount <= 0 \/ call.args.amount > 1000000
        THEN Rejected /\ NoEffect
        ELSE ~(Rejected /\ ret.msg \in AmountRules)

\* a bad amount with an otherwise good request is refused on a non-empty ledger
C1_Witness ==
    /\ IsSubmit
    /\ call.args.amount = 0
    /\ call.args.card_token = Tok10
    /\ call.args.user_email = Alice
    /\ Rejected
    /\ Len(transactions) > 0

BadToken(t) == Len(t) = 0 \/ (\A i \in 1..Len(t) : t[i] = " ") \/ Len(t) < 10

BadEmail(e) == Len(e) = 0 \/ (\A i \in 1..Len(e) : e[i] /= "@")

GoodAmount(a) == 0 < a /\ a <= 1000000

C3_SuccessRecorded ==
    (Answered /\ pc = "idle" /\ Get(result.value, "status", None) = "success"
        /\ "transaction_id" \in DOMAIN result.value) =>
        /\ ret.kind = "return"
        /\ ret.value.success = TRUE
        /\ ret.value.transaction_id = result.value.transaction_id
        /\ ret.value.amount = call.args.amount
        /\ OneAppended
        /\ Last.id = result.value.transaction_id
        /\ Last.amount = call.args.amount
        /\ Last.user_email = call.args.user_email
        /\ Last.description = call.args.description

\* a described payment succeeded on a ledger that already held a record
C3_Witness ==
    /\ Answered
    /\ pc = "idle"
    /\ result.value = RespSuccess
    /\ call.args.description = "order"
    /\ ret.kind = "return"
    /\ Len(pre) > 0

\* C4: when the gateway answers a valid submission with a status other than
\* "success", a missing status included, make_payment returns success =
\* false, exactly one record is appended with that status, receipt_sent =
\* false and no receipt_error, and send_receipt is not called.
C4_NonSuccessRecorded ==
    (Answered /\ Get(result.value, "status", None) /= "success") =>
        /\ pc = "idle"
        /\ ret.kind = "return"
        /\ ret.value.success = FALSE
        /\ OneAppended
        /\ Last.status = Get(result.value, "status", None)
        /\ "receipt_sent" \in DOMAIN Last
        /\ Last.receipt_sent = FALSE
        /\ "receipt_error" \notin DOMAIN Last
        /\ send_calls = 0
        /\ sent = NoValue

\* a response without a status was recorded
C4_Witness ==
    /\ Answered
    /\ result.value = RespNoStatus
    /\ pc = "idle"
    /\ Len(transactions) = Len(pre) + 1

\* C5: when send_receipt raises for a payment the gateway reported as
\* "success", make_payment still returns success = true, the record stays
\* in the ledger and it has receipt_sent = false and a non-empty
\* receipt_error.
C5_ReceiptFailureContained ==
    (IsSubmit /\ sent.kind = "raise") =>
        /\ pc = "idle"
        /\ result.value.status = "success"
        /\ ret.kind = "return"
        /\ ret.value.success = TRUE
        /\ OneAppended
        /\ Last.id = Get(result.value, "transaction_id", None)
        /\ "receipt_sent" \in DOMAIN Last
        /\ Last.receipt_sent = FALSE
        /\ "receipt_error" \in DOMAIN Last
        /\ Last.receipt_error /= ""

\* the receipt of a successful payment could not be sent
C5_Witness ==
    /\ IsSubmit
    /\ sent.kind = "raise"
    /\ ret.kind = "return"
    /\ Len(transactions) = Len(pre) + 1

-----------------------------------------------------------------------------
(* Properties of the gateway call *)

\* the k-th outbound request of this submission ended in a transport failure
\* (an exception of requests.post or an HTTP error status)
RequestFails(k) ==
    /\ k \in 1..Len(net)
    /\ net[k].kind = "exception" \/ net[k].status_code >= 400

\* the k-th outbound request would be answered with a successful payment
RequestSucceeds(k) ==
    /\ k \in 1..Len(net)
    /\ net[k].kind = "response"
    /\ net[k].status_code = 200
    /\ Get(net[k].body, "status", None) = "success"

\* make_payment's call of process_payment has completed
Charged == IsSubmit /\ gateway_calls = 1 /\ pc /= "charging"

\* C6: when the gateway call of a submission fails, its error reaches the
\* caller of make_payment, no record is appended and no receipt is
\* attempted; at all times the ledger holds as many records as gateway calls
\* have returned a response since the last clear.
C6_GatewayFailureNotRecorded ==
    /\ (Charged /\ RequestFails(1)) =>
           /\ pc = "idle"
           /\ ret.kind = "raise"
           /\ ret = result
           /\ \/ ret.exc = "PaymentError"
              \/ net[1].kind = "exception" /\ ret.exc = net[1].exc
           /\ transactions = pre
           /\ send_calls = 0
    /\ Len(transactions) = responses

\* a refused payment (HTTP 402) left a non-empty ledger as it was
C6_Witness ==
    /\ Charged
    /\ net[1].kind = "response"
    /\ net[1].status_code = 402
    /\ ret.kind = "raise"
    /\ ret.exc = "PaymentError"
    /\ Len(transactions) > 0

C8_TwoAttempts ==
    (Charged /\ RequestFails(1) /\ net[1].kind = "exception" /\ RequestSucceeds(2)) =>
        (ret.kind = "raise" /\ post_calls = 2)

-----------------------------------------------------------------------------
(* Properties of the queries *)

\* positions of the ledger whose record has status "success"
SuccessAt == {i \in 1..Len(transactions) :
                 "status" \in DOMAIN transactions[i] /\ transactions[i].status = "success"}

\* amount of the first k records
RECURSIVE AmountUpTo(_)
AmountUpTo(k) == IF k = 0 THEN 0 ELSE AmountUpTo(k - 1) + transactions[k].amount

\* h hundredths is num / den rounded to 2 decimals: no hundredth is nearer
RoundedTo2(h, num, den) ==
    /\ 2 * (h * den - 100 * num) <= den
    /\ 2 * (100 * num - h * den) <= den

\* the ledger of the example: success, failed, success of 1000, 2000, 1500
ExampleLedger ==
    /\ Len(transactions) = 3
    /\ <<transactions[1].amount, transactions[2].amount, transactions[3].amount>>
           = <<1000, 2000, 1500>>
    /\ <<transactions[1].status, transactions[2].status, transactions[3].status>>
           = <<"success", "failed", "success">>

\* C9: get_transaction_stats returns total = number of records, successful =
\* number of records with status "success", failed = total - successful,
\* total_amount = sum of the amounts and success_rate = 100 * successful /
\* total rounded to 2 decimals; on an empty ledger every field is 0; the
\* example ledger gives 3, 2, 1, 4500 and 66.67.
C9_Stats ==
    call.op = "get_transaction_stats" =>
        /\ ret.kind = "return"
        /\ LET st == ret.value
               n == Len(transactions)
           IN  /\ st.total = n
               /\ st.successful = Cardinality(SuccessAt)
               /\ st.failed = n - Cardinality(SuccessAt)
               /\ st.total_amount = AmountUpTo(n)
               /\ n = 0 => \A f \in DOMAIN st : st[f] = 0
               /\ n > 0 => RoundedTo2(st.success_rate, 100 * Cardinality(SuccessAt), n)
               /\ ExampleLedger =>
                      /\ <<st.total, st.successful, st.failed>> = <<3, 2, 1>>
                      /\ st.total_amount = 4500
                      /\ st.success_rate = 6667

\* the statistics of the example ledger were asked for
C9_Witness ==
    /\ call.op = "get_transaction_stats"
    /\ ExampleLedger
    /\ ret.value.success_rate = 6667

\* positions of the ledger whose record belongs to e
OwnedBy(e) == {i \in 1..Len(transactions) :
                  "user_email" \in DOMAIN transactions[i]
                  /\ transactions[i].user_email = e}

\* the k-th smallest element of the set of positions S
Kth(S, k) == CHOOSE i \in S : Cardinality({j \in S : j < i}) = k - 1

\* C10: get_user_transactions(e) returns exactly the records whose
\* user_email equals e, each once, in the order they were appended, and an
\* empty sequence when there is none.
C10_UserTransactions ==
    call.op = "get_user_transactions" =>
        /\ ret.kind = "return"
        /\ Len(ret.value) = Cardinality(OwnedBy(call.args))
        /\ \A k \in 1..Len(ret.value) :
               ret.value[k] = transactions[Kth(OwnedBy(call.args), k)]

\* two different records of one user came back around another user's record
C10_Witness ==
    /\ call.op = "get_user_transactions"
    /\ call.args = Alice
    /\ Len(transactions) = 3
    /\ transactions[2].user_email = Bob
    /\ Len(ret.value) = 2
    /\ ret.value[1] = transactions[1]
    /\ ret.value[1] /= ret.value[2]

-----------------------------------------------------------------------------
(* Properties of the lookups and of the clear *)

\* positions of the ledger whose record has the id
WithId(id) == {i \in 1..Len(transactions) :
                  "id" \in DOMAIN transactions[i] /\ transactions[i].id = id}

Lowest(S) == CHOOSE i \in S : \A j \in S : i <= j

IsLookup == call.op \in {"get_transaction_by_id", "get_payment"}

\* C11: get_transaction_by_id(id) returns the earliest appended record whose
\* id equals id when the ledger holds one and not-found otherwise; GET
\* /api/payments/{id} answers 200 with that record in the first case and 404
\* in the second.
C11_LookupById ==
    IsLookup =>
        IF WithId(call.args) = {}
        THEN /\ ret = Returned(NoValue)
             /\ call.op = "get_payment" => http.status = 404
        ELSE /\ ret = Returned(transactions[Lowest(WithId(call.args))])
             /\ ret.value.id = call.args
             /\ call.op = "get_payment" =>
                    (http.status = 200 /\ http.body.data = ret.value)

\* the endpoint answered the older of two different records sharing an id
C11_Witness ==
    /\ call.op = "get_payment"
    /\ Cardinality(WithId(call.args)) >= 2
    /\ \E i, j \in WithId(call.args) : i < j /\ transactions[i] /= transactions[j]
    /\ http.status = 200

\* C12: after clear_transactions the ledger holds no record whatever it held
\* before: the statistics are all zero, no id and no user finds anything, and
\* a submission made on the emptied ledger is recorded as its only record.
C12_Clear ==
    /\ call.op = "clear_transactions" =>
           /\ transactions = << >>
           /\ \A f \in DOMAIN get_transaction_stats(transactions) :
                  get_transaction_stats(transactions)[f] = 0
           /\ \A id \in PathIds \cup {None} :
                  get_transaction_by_id(transactions, id) = NoValue
           /\ \A e \in Emails : get_user_transactions(transactions, e) = << >>
    /\ (Answered /\ pc = "idle" /\ pre = << >>) =>
           /\ Len(transactions) = 1
           /\ transactions[1].amount = call.args.amount
           /\ transactions[1].user_email = call.args.user_email
           /\ responses = 1

\* a full ledger was cleared
C12_Witness ==
    /\ call.op = "clear_transactions"
    /\ Len(pre) >= 2
    /\ transactions = << >>

-----------------------------------------------------------------------------
(* Properties of the history and card endpoints *)

IsHistory == call.op = "get_payment_history"

QPage == Get(call.args, "page", 1)

QPerPage == Get(call.args, "per_page", 10)

\* positions of the ledger the request lists: the records of the user asked
\* for, or all of them
Listed ==
    IF "user_email" \in DOMAIN call.args /\ call.args.user_email /= << >>
    THEN OwnedBy(call.args.user_email)
    ELSE 1..Len(transactions)

\* the least number of pages of d records that hold n records
Ceil(n, d) == CHOOSE k \in 0..n : k * d >= n /\ (k = 0 \/ (k - 1) * d < n)

Min(a, b) == IF a <= b THEN a ELSE b

\* C13: for a history request over N records with page >= 1 and
\* per_page >= 1 the response holds exactly the records at 0-based positions
\* (page-1)*per_page up to but excluding min(page*per_page, N), in ledger
\* order, with total = N and total_pages = ceil(N / per_page).
C13_Pagination ==
    (IsHistory /\ QPage >= 1 /\ QPerPage >= 1) =>
        LET N == Cardinality(Listed)
            first == (QPage - 1) * QPerPage
            last == Min(QPage * QPerPage, N)
        IN  /\ http.status = 200
            /\ Len(http.body.data.transactions) =
                   (IF last > first THEN last - first ELSE 0)
            /\ \A k \in 1..Len(http.body.data.transactions) :
                   http.body.data.transactions[k] =
                       transactions[Kth(Listed, first + k)]
            /\ http.body.data.pagination.total = N
            /\ http.body.data.pagination.total_pages = Ceil(N, QPerPage)

\* with 15 records, page=2 and per_page=5 return records 6 to 10 and
\* total_pages=3
C13_Witness ==
    /\ IsHistory
    /\ Len(transactions) = 15
    /\ "user_email" \notin DOMAIN call.args
    /\ QPage = 2
    /\ QPerPage = 5
    /\ Len(http.body.data.transactions) = 5
    /\ \A k \in 1..5 :
           http.body.data.transactions[k].id = "txn_" \o ToString(5 + k)
    /\ http.body.data.pagination.total_pages = 3

\* pages of the request's listing; no page is in range when per_page < 1
TotalPages == IF QPerPage >= 1 THEN Ceil(Cardinality(Listed), QPerPage) ELSE 0

\* C14: for every integer page outside 1..total_pages and every integer
\* per_page the history request yields an empty slice of transactions and
\* not an error.
C14_OutOfRangeEmpty ==
    (IsHistory /\ QPage \notin 1..TotalPages) =>
        /\ http.status = 200
        /\ http.body.data.transactions = << >>

\* a negative page of a 15-record ledger came back with records
C14_NegativePage ==
    /\ IsHistory
    /\ Len(transactions) = 15
    /\ QPage = -1
    /\ QPerPage = 5
    /\ http.status = 200
    /\ Len(http.body.data.transactions) = 5

IsValidate == call.op = "validate_card" /\ "card_token" \in DOMAIN call.args

\* C15: in the response of POST /api/cards/validate a token of length >= 4
\* that the gateway reports valid is returned truncated to its last 4
\* characters; in every other case the returned card_token is "****".
C15_CardMasking ==
    (IsValidate /\ http.status = 200) =>
        LET token == call.args.card_token
        IN  IF http.body.data.valid /\ Len(token) >= LastFour
            THEN http.body.data.card_token =
                     SubSeq(token, Len(token) - LastFour + 1, Len(token))
            ELSE http.body.data.card_token = <<"*", "*", "*", "*">>

\* a valid token of three characters came back whole
C15_ShortTokenDisclosed ==
    /\ IsValidate
    /\ Len(call.args.card_token) = 3
    /\ http.status = 200
    /\ http.body.data.card_token = call.args.card_token

\* the validation request failed in transport: an exception of requests or
\* an HTTP error status
ValidationFails ==
    \/ (net[1].kind = "exception" /\ net[1].exc \in RequestsExceptions)
    \/ (net[1].kind = "response" /\ net[1].status_code >= 400)

\* C16: validate_card never raises: on every transport failure of the
\* outbound validation request it returns false, and it returns true only
\* when the request succeeded and the remote answered valid = true.
C16_ValidateCardNeverRaises ==
    IsValidate =>
        /\ result.kind = "return"
        /\ ValidationFails => result.value = FALSE
        /\ result.value = TRUE =>
               /\ net[1].kind = "response"
               /\ net[1].status_code < 400
               /\ Get(net[1].body, "valid", FALSE) = TRUE

\* a 200 answer whose JSON body is an array made validate_card raise
C16_ArrayBodyRaises ==
    /\ IsValidate
    /\ net[1] = Response(200, JsonArray)
    /\ result.kind = "raise"
    /\ http.status = 500

-----------------------------------------------------------------------------
(* Properties of the gateway client and of the mail sender *)

\* the kind of GatewayError the claim assigns to a transport failure
GatewayErrorKind(o) ==
    IF o.kind = "exception"
    THEN CASE o.exc = "Timeout" -> "gateway timeout"
           [] o.exc = "ConnectionError" -> "no connection to gateway"
           [] OTHER -> "gateway error"
    ELSE CASE o.status_code = 401 -> "invalid api key"
           [] o.status_code = 402 -> "insufficient funds"
           [] o.status_code >= 500 -> "gateway server error"
           [] OTHER -> "http error"

\* the outbound request failed in transport: an exception of the requests
\* family or an HTTP error status
TransportFailure(o) ==
    \/ (o.kind = "exception" /\ o.exc \in RequestsExceptions)
    \/ (o.kind = "response" /\ o.status_code >= 400)

\* C17: process_payment returns the remote's response only when the request
\* completed without a transport failure; on a transport failure it raises
\* PaymentError and nothing else, of the one kind its cause determines:
\* timeout, no connection, HTTP 401, HTTP 402, HTTP status >= 500, other.
C17_GatewayErrorMapping ==
    Charged =>
        /\ result.kind = "return" =>
               /\ net[1].kind = "response"
               /\ net[1].status_code < 400
               /\ result.value = net[1].body
        /\ TransportFailure(net[1]) =>
               /\ result.kind = "raise"
               /\ result.exc = "PaymentError"
               /\ result.msg = GatewayErrorKind(net[1])
        /\ ~TransportFailure(net[1]) /\ net[1].kind = "response" =>
               result.kind = "return"

\* a 500 of the remote was raised as a gateway server error
C17_Witness ==
    /\ Charged
    /\ net[1].kind = "response"
    /\ net[1].status_code = 500
    /\ result = Raised("PaymentError", "gateway server error")
    /\ ret = result

\* a receipt or a notification was sent by this operation
Mailed ==
    \/ call.op = "send_notification"
    \/ (IsSubmit /\ pc = "idle" /\ send_calls = 1)

\* what the send returned or raised
MailResult == IF IsSubmit THEN sent ELSE ret

CredentialUnset == mail.smtp_user = "" \/ mail.smtp_password = ""

\* C18: when the sender's user or password is unset, send_receipt and
\* send_notification return true without attempting any SMTP connection;
\* a successful payment processed with such a sender is recorded with
\* receipt_sent = true.
C18_UnconfiguredSender ==
    (Mailed /\ CredentialUnset) =>
        /\ MailResult = Returned(TRUE)
        /\ smtp_calls = 0
        /\ IsSubmit =>
               /\ Last.status = "success"
               /\ Last.receipt_sent = TRUE
               /\ "receipt_error" \notin DOMAIN Last
               /\ ret.kind = "return"
               /\ ret.value.success

\* a payment whose sender has a user but no password, and whose SMTP server
\* would refuse the connection, was recorded with its receipt sent
C18_Witness ==
    /\ IsSubmit
    /\ pc = "idle"
    /\ send_calls = 1
    /\ mail.smtp_user /= ""
    /\ mail.smtp_password = ""
    /\ mail.fails = "connect"
    /\ smtp_calls = 0
    /\ Last.receipt_sent = TRUE

\* a step of the SMTP exchange throws: connect, login or send_message, or
\* starttls when TLS is in use
TransmissionFails ==
    \/ mail.fails \in {"connect", "login", "send_message"}
    \/ (mail.fails = "starttls" /\ mail.use_tls)

\* C19: with credentials present a transport failure during transmission
\* (connect, TLS, login or send) makes send_receipt and send_notification
\* return false without raising; send_receipt raises EmailError only when
\* the send attempt itself throws, and no other error type.
C19_TransportFailureContained ==
    /\ (Mailed /\ ~CredentialUnset /\ TransmissionFails) =>
           MailResult = Returned(FALSE)
    /\ (Mailed /\ IsSubmit /\ sent.kind = "raise") =>
           /\ sent.exc = "EmailError"
           /\ ~CredentialUnset
           /\ mail.fails = "message"
           /\ smtp_calls = 0

\* the receipt of a payment failed at starttls: send_receipt came back false
\* after one SMTP connection and the payment still succeeded
C19_Witness ==
    /\ IsSubmit
    /\ pc = "idle"
    /\ send_calls = 1
    /\ ~CredentialUnset
    /\ mail.fails = "starttls"
    /\ mail.use_tls
    /\ sent = Returned(FALSE)
    /\ smtp_calls = 1
    /\ ret.kind = "return"
    /\ ret.value.success

-----------------------------------------------------------------------------
(* Properties of POST /api/payments *)

\* C20: POST /api/payments answers 400 to a validation error, 502 to a
\* gateway error raised by the payment processor, 500 to any other error
\* raised by the payment processor, and 201 only when the submission
\* returned success = true.
C20_StatusMapping ==
    /\ (IsSubmit /\ pc = "idle") =>
           /\ Rejected => http.status = 400
           /\ (ret.kind = "raise" /\ ret.exc = "PaymentError") => http.status = 502
           /\ (ret.kind = "raise" /\ ~Rejected /\ ret.exc /= "PaymentError") =>
                  http.status = 500
    /\ (http \notin {NoValue, Pending} /\ http.status = 201) =>
           /\ IsSubmit
           /\ ret.kind = "return"
           /\ ret.value.success

\* a ValueError raised by the gateway call of a valid submission was
\* answered 400
C20_UnexpectedValueError ==
    /\ IsSubmit
    /\ pc = "idle"
    /\ gateway_calls = 1
    /\ ret.kind = "raise"
    /\ ret.exc = "ValueError"
    /\ http.status = 400

-----------------------------------------------------------------------------
(* Properties of the ledger over whole runs *)

ReceiptFields == {"receipt_sent", "receipt_error"}

\* record u is record t with receipt fields added and nothing else changed
ReceiptWritten(t, u) ==
    /\ DOMAIN t \subseteq DOMAIN u
    /\ DOMAIN u \ DOMAIN t \subseteq ReceiptFields
    /\ \A f \in DOMAIN t : u[f] = t[f]

\* One step that is not a clear keeps every record in its place; a record
\* changes only by the receipt fields being written on the newest record,
\* which has none yet, while its own submission waits for send_receipt; at
\* most one record is appended, without receipt_error, and with receipt_sent
\* only when it is false on a payment that is not a success.
AppendOnlyStep ==
    call'.op /= "clear_transactions" =>
        /\ Len(transactions') \in {Len(transactions), Len(transactions) + 1}
        /\ \A i \in 1..Len(transactions) :
               \/ transactions'[i] = transactions[i]
               \/ /\ i = Len(transactions)
                  /\ pc = "sending"
                  /\ call' = call
                  /\ Len(transactions) = Len(pre) + 1
                  /\ DOMAIN transactions[i] \cap ReceiptFields = {}
                  /\ ReceiptWritten(transactions[i], transactions'[i])
        /\ Len(transactions') = Len(transactions) + 1 =>
               /\ pc = "charging"
               /\ "receipt_error" \notin DOMAIN transactions'[Len(transactions')]
               /\ "receipt_sent" \in DOMAIN transactions'[Len(transactions')] =>
                      /\ transactions'[Len(transactions')].receipt_sent = FALSE
                      /\ transactions'[Len(transactions')].status /= "success"

\* C21: the ledger is append-only between clears: records already in the
\* ledger are never removed, reordered or replaced and their id, amount,
\* status, user_email, description, timestamp and card_last_four never
\* change; receipt_sent and receipt_error are written only on a record that
\* is already in the ledger, at most once, by the submission that created it.
C21_AppendOnly == [][AppendOnlyStep]_vars

\* the receipt fields were written on the second record of the ledger, after
\* a failed send, with the first record as it was
C21_Witness ==
    /\ IsSubmit
    /\ pc = "idle"
    /\ Len(transactions) = 2
    /\ Len(pre) = 1
    /\ transactions[1] = pre[1]
    /\ "receipt_error" \in DOMAIN transactions[1]
    /\ "receipt_error" \in DOMAIN transactions[2]
    /\ transactions[2].receipt_sent = FALSE

\* the arguments of the submission pass every rule of the validation
PassesValidation ==
    /\ GoodAmount(call.args.amount)
    /\ ~BadToken(call.args.card_token)
    /\ ~BadEmail(call.args.user_email)

\* C22: within every submission the steps happen in the order validate,
\* gateway charge, record append, receipt send, return: the gateway is called
\* only after validation passed, the record is appended only after the
\* gateway returned, send_receipt is called only after the record is in the
\* ledger and only when the status is "success", and at most one gateway
\* call and one send attempt happen per submission.
C22_StepOrder ==
    IsSubmit =>
        /\ gateway_calls <= 1 /\ post_calls <= 1 /\ send_calls <= 1
        /\ gateway_calls = 1 <=> PassesValidation
        /\ pc = "charging" =>
               /\ gateway_calls = 1
               /\ post_calls = 0
               /\ send_calls = 0
               /\ transactions = pre
        /\ transactions /= pre =>
               /\ OneAppended
               /\ post_calls = 1
               /\ result.kind = "return"
        /\ send_calls = 1 =>
               /\ OneAppended
               /\ Last.status = "success"
               /\ Get(result.value, "status", None) = "success"
        /\ pc = "sending" =>
               /\ send_calls = 1
               /\ sent = NoValue
               /\ DOMAIN Last \cap ReceiptFields = {}
        /\ (pc = "idle" /\ ret.kind = "return") =>
               /\ OneAppended
               /\ "receipt_sent" \in DOMAIN Last
               /\ send_calls = 1 <=> ret.value.success
               /\ send_calls = 1 => sent /= NoValue

\* a submission stands between its append and its receipt: validated,
\* charged once, recorded, send_receipt called and not yet returned
C22_Witness ==
    /\ IsSubmit
    /\ pc = "sending"
    /\ PassesValidation
    /\ gateway_calls = 1
    /\ post_calls = 1
    /\ Len(pre) = 1
    /\ OneAppended
    /\ send_calls = 1

Queries ==
    {"get_transaction_by_id", "get_user_transactions", "get_transaction_stats",
     "get_payment", "get_payment_stats", "get_payment_history"}

\* a step that serves a query leaves the ledger as it is and calls neither
\* the gateway nor the mail sender
QueryStep ==
    call'.op \in Queries =>
        /\ transactions' = transactions
        /\ gateway_calls' = 0
        /\ post_calls' = 0
        /\ send_calls' = 0
        /\ smtp_calls' = 0
        /\ pc' = "idle"

\* C23: get_transaction_by_id, get_user_transactions and
\* get_transaction_stats, and the history and stats endpoints built on them,
\* have no side effects: after any of them the ledger holds the same records
\* in the same order with the same field values, and no gateway call or
\* send attempt is made.
C23_QueriesReadOnly == [][QueryStep]_vars

\* the stats endpoint answered over a ledger of two records and left it alone
C23_Witness ==
    /\ call.op = "get_payment_stats"
    /\ Len(transactions) = 2
    /\ transactions = pre
    /\ http.status = 200
    /\ http.body.data.total = 2

-----------------------------------------------------------------------------
(* Properties of the receipt fields, of the 400 answers and of the masking *)

\* C24: a stored record has receipt_sent = true only if send_receipt
\* returned true for that submission; when the send attempt fails, by
\* returning false or by raising, the record has receipt_sent = false.
C24_ReceiptSentTruthful ==
    (Answered /\ pc = "idle") =>
        /\ Last.receipt_sent = TRUE => sent = Returned(TRUE)
        /\ (send_calls = 1 /\ sent /= Returned(TRUE)) => Last.receipt_sent = FALSE

\* send_receipt returned false and the record says the receipt was sent
C24_FalseRecordedAsSent ==
    /\ Answered
    /\ pc = "idle"
    /\ send_calls = 1
    /\ sent = Returned(FALSE)
    /\ Last.receipt_sent = TRUE

\* C25: in every state where no submission is in progress every record of
\* the ledger has a receipt_sent value; receipt_sent = true occurs only on
\* records with status "success"; receipt_error is present only on records
\* with status "success" and receipt_sent = false.
C25_ReceiptFields ==
    pc = "idle" =>
        \A i \in 1..Len(transactions) :
            /\ "receipt_sent" \in DOMAIN transactions[i]
            /\ transactions[i].receipt_sent \in BOOLEAN
            /\ transactions[i].receipt_sent => transactions[i].status = "success"
            /\ "receipt_error" \in DOMAIN transactions[i] =>
                   /\ transactions[i].status = "success"
                   /\ transactions[i].receipt_sent = FALSE

\* at rest the ledger holds a successful payment whose receipt failed and a
\* payment without a status
C25_Witness ==
    /\ pc = "idle"
    /\ Len(transactions) = 2
    /\ transactions[1].status = "success"
    /\ "receipt_error" \in DOMAIN transactions[1]
    /\ transactions[1].receipt_sent = FALSE
    /\ transactions[2].status = None
    /\ transactions[2].receipt_sent = FALSE

\* POST /api/payments was answered
IsPost == call.op \in {"make_payment", "create_payment"} /\ pc = "idle"

\* C26: whenever POST /api/payments answers 400 the submission appended no
\* record and sent no receipt: the ledger is exactly as it was before the
\* request.
C26_BadRequestNoRecord ==
    (IsPost /\ http.status = 400) =>
        /\ transactions = pre
        /\ send_calls = 0

\* a declined payment was recorded and answered 400
C26_DeclinedRecorded ==
    /\ IsSubmit
    /\ pc = "idle"
    /\ http.status = 400
    /\ OneAppended
    /\ Last.status = "failed"

\* C27: every record that make_payment appends has card_last_four equal to
\* the last 4 characters of the submitted card token; validation rejects
\* tokens shorter than 10 characters before a record is built, so the
\* placeholder "****" is never stored and no record holds more than 4
\* characters of the token.
C27_LastFourStored ==
    /\ (Answered /\ OneAppended) =>
           /\ Len(call.args.card_token) >= 10
           /\ Last.card_last_four =
                  SubSeq(call.args.card_token, Len(call.args.card_token) - 3,
                         Len(call.args.card_token))
    /\ \A i \in 1..Len(transactions) :
           /\ Len(transactions[i].card_last_four) = 4
           /\ transactions[i].card_last_four /= <<"*", "*", "*", "*">>

\* a 12-character token left its last four characters on the record
C27_Witness ==
    /\ Answered
    /\ OneAppended
    /\ call.args.card_token = Tok12
    /\ Last.card_last_four = <<"e", "f", "g", "h">>

=============================================================================
